---- MODULE Spec2Model ----
(***************************************************************************)
(* Model of fetch_and_insert_nasa_data.py: a process that fetches photo    *)
(* records over HTTP, provisions a table from the DataFrame's columns,     *)
(* inserts the required columns row by row, commits once and exits.  The   *)
(* database (tables, committed rows) outlives the process; every other     *)
(* variable is per process and is reset when a new run starts.             *)
(***************************************************************************)
EXTENDS Integers, Sequences, FiniteSets, TLC

\* ---------------------------------------------------------------- bounds
\* Longest photo list a response carries.
MaxBatch == 3

\* Photo ids the API may return, and the `sol` of a response: the request
\* names one sol, so the photos of a response share it ("NaN" is a response
\* that carries no value for it).
Ids == {1, 2, 3}
SolVals == {"1000", "NaN"}
Records == [id : Ids, sol : SolVals]
Batches ==
    UNION {{[k \in 1..n |-> [id |-> ids[k], sol |-> s]] :
               ids \in [1..n -> Ids], s \in SolVals} : n \in 1..MaxBatch}

\* ------------------------------------------------------- program constants
table_name == "mars_rover_photos_raw"

ApiKeyVar == "NASA_API_KEY"
DbVars == {"DB_DRIVER", "DB_SERVER", "DB_DATABASE", "DB_USERNAME", "DB_PASSWORD"}
EnvVars == {ApiKeyVar} \cup DbVars

required_columns ==
    {"id", "sol", "camera_name", "camera_full_name", "earth_date", "img_src",
     "rover_id", "rover_name", "rover_launch_date", "rover_landing_date",
     "rover_status"}

\* The rename table of lines 103-111 and 210-218, applied to one column name.
RenameColumn(c) ==
    CASE c = "camera.name" -> "camera_name"
      [] c = "camera.full_name" -> "camera_full_name"
      [] c = "rover.id" -> "rover_id"
      [] c = "rover.name" -> "rover_name"
      [] c = "rover.launch_date" -> "rover_launch_date"
      [] c = "rover.landing_date" -> "rover_landing_date"
      [] c = "rover.status" -> "rover_status"
      [] OTHER -> c

Rename(columns) == {RenameColumn(c) : c \in columns}

\* ------------------------------------------------------------- the inputs
\* Fields of a photo as json_normalize names them: the eleven the loader
\* needs, under their dotted names, and one it does not need.
RequiredFields ==
    {"id", "sol", "camera.name", "camera.full_name", "earth_date", "img_src",
     "rover.id", "rover.name", "rover.launch_date", "rover.landing_date",
     "rover.status"}
ExtraFields == {"camera.id"}
AllFields == RequiredFields \cup ExtraFields
\* A response carries every field, or lacks one of these.
DroppableFields == {"id", "rover.status", "camera.id"}
FieldSets == {AllFields} \cup {AllFields \ {f} : f \in DroppableFields}

\* The environment sets every variable, or lacks one.
Environments == {EnvVars} \cup {EnvVars \ {v} : v \in EnvVars}

NoFrame == [columns |-> {}, rows |-> << >>]

\* The exit status of the process: none while it runs.
NoStatus == << >>
Status(n) == <<n>>

VARIABLES
    env,                \* environment variables that are set (non-empty)
    pc,                 \* position of the process in main
    exitCode,           \* << >> while running, then <<status>>
    fatal,              \* which sys.exit(1) ended the run, "none" otherwise
    lastLevel,          \* level of the last line logged
    fault,              \* what the outside world made fail in this run
    photos_df,          \* the fetched DataFrame: columns and rows
    data_to_insert,     \* photos_df[required_columns]
    cnxn,               \* "none", "open", "closed", "failed"
    cursor,             \* "none", "open", "closed"
    tables,             \* the database: table name -> [schema, pk]
    rows,               \* committed rows of the target table
    pending,            \* rows inserted in the open transaction
    rowsBefore,         \* the committed rows when this run started
    i,                  \* index of the next tuple of the insert loop
    successful_inserts,
    failed_inserts,
    lastOutcome,        \* branch the last row insert took
    reported,           \* counts logged after the commit, << >> if none
    httpRequests,
    connectAttempts,
    ddlExecs,
    ddlResult,          \* "none", "created", "exists", "error"
    insertAttempts,
    commits,            \* commits issued by insert_data
    commitResult,       \* "none", "ok", "failed"
    rollbacks

procVars ==
    <<env, pc, exitCode, fatal, lastLevel, fault, photos_df, data_to_insert,
      cnxn, cursor, rowsBefore, i, successful_inserts, failed_inserts,
      lastOutcome, reported, httpRequests, connectAttempts, ddlExecs,
      ddlResult, insertAttempts, commits, commitResult, rollbacks>>
dbVars == <<tables, rows, pending>>
vars == <<procVars, dbVars>>

\* ------------------------------------------------------- process start
\* A fresh process: nothing fetched, nothing opened, no statement issued.
ProcessStart(e, committed) ==
    /\ env = e
    /\ pc = "fetch"
    /\ exitCode = NoStatus
    /\ fatal = "none"
    /\ lastLevel = "none"
    /\ fault = "none"
    /\ photos_df = NoFrame
    /\ data_to_insert = NoFrame
    /\ cnxn = "none"
    /\ cursor = "none"
    /\ rowsBefore = committed
    /\ i = 1
    /\ successful_inserts = 0
    /\ failed_inserts = 0
    /\ lastOutcome = "none"
    /\ reported = << >>
    /\ httpRequests = 0
    /\ connectAttempts = 0
    /\ ddlExecs = 0
    /\ ddlResult = "none"
    /\ insertAttempts = 0
    /\ commits = 0
    /\ commitResult = "none"
    /\ rollbacks = 0

Init ==
    /\ \E e \in Environments : ProcessStart(e, {})
    /\ tables = << >>
    /\ rows = {}
    /\ pending = {}

\* ------------------------------------------------ 1. fetch from the API
\* sys.exit(1): the process ends here, whatever it holds open.
Exit(reason) ==
    /\ exitCode' = Status(1)
    /\ fatal' = reason
    /\ pc' = "exited"

\* Lines 31-35: no API key, so no request is sent.
FetchNoKey ==
    /\ pc = "fetch"
    /\ ApiKeyVar \notin env
    /\ lastLevel' = "error"
    /\ Exit("no_api_key")
    /\ UNCHANGED <<env, fault, photos_df, data_to_insert, cnxn, cursor,
                   rowsBefore, i, successful_inserts, failed_inserts,
                   lastOutcome, reported, httpRequests, connectAttempts,
                   ddlExecs, ddlResult, insertAttempts, commits, commitResult,
                   rollbacks, dbVars>>

\* Lines 44-61 with photos = []: a warning is the last line, then exit(1).
NoPhotos ==
    /\ lastLevel' = "warning"
    /\ Exit("empty_fetch")
    /\ UNCHANGED <<env, photos_df, data_to_insert, cnxn, cursor,
                   rowsBefore, i, successful_inserts, failed_inserts,
                   lastOutcome, reported, connectAttempts,
                   ddlExecs, ddlResult, insertAttempts, commits, commitResult,
                   rollbacks, dbVars>>

\* Lines 50-52: the request raised; it is logged and photos = [].
FetchRequestError ==
    /\ pc = "fetch"
    /\ ApiKeyVar \in env
    /\ httpRequests' = httpRequests + 1
    /\ fault' = "network"
    /\ NoPhotos
\* FetchEmpty as it would be if the empty list were returned to main.
FetchEmpty_returns ==
    /\ pc = "fetch"
    /\ ApiKeyVar \in env
    /\ httpRequests' = httpRequests + 1
    /\ lastLevel' = "warning"
    /\ pc' = "rename"
    /\ UNCHANGED <<env, exitCode, fatal, fault, photos_df, data_to_insert, cnxn,
                   cursor, rowsBefore, i, successful_inserts, failed_inserts,
                   lastOutcome, reported, connectAttempts,
                   ddlExecs, ddlResult, insertAttempts, commits, commitResult,
                   rollbacks, dbVars>>

\* Lines 45-49 answered with an empty (or absent) photo list.
FetchEmpty ==
    /\ pc = "fetch"
    /\ ApiKeyVar \in env
    /\ httpRequests' = httpRequests + 1
    /\ fault' = fault
    /\ NoPhotos

\* Lines 45-58: a non-empty photo list becomes the DataFrame.
FetchPhotos ==
    /\ pc = "fetch"
    /\ ApiKeyVar \in env
    /\ httpRequests' = httpRequests + 1
    /\ \E f \in FieldSets, b \in Batches :
          photos_df' = [columns |-> f, rows |-> b]
    /\ lastLevel' = "info"
    /\ pc' = "rename"
    /\ UNCHANGED <<env, exitCode, fatal, fault, data_to_insert, cnxn, cursor,
                   rowsBefore, i, successful_inserts, failed_inserts,
                   lastOutcome, reported, connectAttempts,
                   ddlExecs, ddlResult, insertAttempts, commits, commitResult,
                   rollbacks, dbVars>>

\* Lines 210-218: main renames the dotted columns in place.
MainRename ==
    /\ pc = "rename"
    /\ photos_df' = [photos_df EXCEPT !.columns = Rename(@)]
    /\ pc' = "connect"
    /\ UNCHANGED <<env, exitCode, fatal, lastLevel, fault, data_to_insert,
                   cnxn, cursor, rowsBefore, i, successful_inserts,
                   failed_inserts, lastOutcome, reported, httpRequests,
                   connectAttempts, ddlExecs, ddlResult, insertAttempts,
                   commits, commitResult, rollbacks, dbVars>>
\* missing_vars as it would be with DB_PASSWORD left out of the list.
missing_vars_short(e) == {v \in DbVars \ {"DB_PASSWORD"} : v \notin e}

\* ------------------------------------------------ 2. connect
\* Lines 74-75: the connection variables that are unset or empty.
missing_vars(e) == {v \in DbVars : v \notin e}

\* Lines 77-79.
ConnectMissingVars ==
    /\ pc = "connect"
    /\ missing_vars(env) # {}
    /\ lastLevel' = "error"
    /\ Exit("db_config")
    /\ UNCHANGED <<env, fault, photos_df, data_to_insert, cnxn, cursor,
                   rowsBefore, i, successful_inserts, failed_inserts,
                   lastOutcome, reported, httpRequests, connectAttempts,
                   ddlExecs, ddlResult, insertAttempts, commits, commitResult,
                   rollbacks, dbVars>>
\* ConnectError as it would be if the except branch logged and returned.
ConnectError_returns ==
    /\ pc = "connect"
    /\ missing_vars(env) = {}
    /\ connectAttempts' = connectAttempts + 1
    /\ fault' = "connect"
    /\ cnxn' = "failed"
    /\ cursor' = "open"
    /\ lastLevel' = "error"
    /\ pc' = "create"
    /\ UNCHANGED <<env, exitCode, fatal, photos_df, data_to_insert,
                   rowsBefore, i, successful_inserts, failed_inserts,
                   lastOutcome, reported, httpRequests,
                   ddlExecs, ddlResult, insertAttempts, commits, commitResult,
                   rollbacks, dbVars>>

\* Lines 81-95 when pyodbc.connect raises.
ConnectError ==
    /\ pc = "connect"
    /\ missing_vars(env) = {}
    /\ connectAttempts' = connectAttempts + 1
    /\ fault' = "connect"
    /\ cnxn' = "failed"
    /\ lastLevel' = "error"
    /\ Exit("db_connect")
    /\ UNCHANGED <<env, photos_df, data_to_insert, cursor,
                   rowsBefore, i, successful_inserts, failed_inserts,
                   lastOutcome, reported, httpRequests,
                   ddlExecs, ddlResult, insertAttempts, commits, commitResult,
                   rollbacks, dbVars>>

\* Lines 81-92, then line 222: the connection and its cursor are open.
ConnectOk ==
    /\ pc = "connect"
    /\ missing_vars(env) = {}
    /\ connectAttempts' = connectAttempts + 1
    /\ cnxn' = "open"
    /\ cursor' = "open"
    /\ lastLevel' = "info"
    /\ pc' = "create"
    /\ UNCHANGED <<env, exitCode, fatal, fault, photos_df, data_to_insert,
                   rowsBefore, i, successful_inserts, failed_inserts,
                   lastOutcome, reported, httpRequests,
                   ddlExecs, ddlResult, insertAttempts, commits, commitResult,
                   rollbacks, dbVars>>

\* ------------------------------------------------ 3. create the table
\* The pandas dtype of a column (line 124): `sol` is int64 unless a value is
\* missing, the other numeric fields are int64, the rest are strings.
Dtype(column, data) ==
    CASE column = "sol" ->
            IF \E k \in 1..Len(data) : data[k].sol = "NaN"
            THEN "float64" ELSE "int64"
      [] column \in {"id", "rover_id", "camera.id"} -> "int64"
      [] OTHER -> "object"

\* Lines 114-125: the SQL type of a dtype, NVARCHAR(MAX) when unknown.
sql_types(dtype) ==
    CASE dtype = "int64" -> "BIGINT"
      [] dtype = "float64" -> "FLOAT"
      [] dtype = "object" -> "NVARCHAR(MAX)"
      [] dtype = "datetime64[ns]" -> "DATETIME"
      [] dtype = "bool" -> "BIT"
      [] dtype = "datetime64[ns, UTC]" -> "DATETIME"
      [] OTHER -> "NVARCHAR(MAX)"

\* Lines 123-132: one column definition per column of the DataFrame it is
\* given, and PRIMARY KEY on the column named id.
columns_with_types(dataframe) ==
    [schema |-> [c \in dataframe.columns |-> sql_types(Dtype(c, dataframe.rows))],
     pk |-> {c \in dataframe.columns : c = "id"}]
\* create_table_query as it would be without the OBJECT_ID guard: CREATE
\* TABLE on an existing name is an error of the server.
create_table_query_unguarded(tbls, name, definition) ==
    IF name \in DOMAIN tbls
    THEN [tables |-> tbls, result |-> "error"]
    ELSE [tables |-> tbls @@ (name :> definition), result |-> "created"]

\* Lines 134-146 as the server runs them: CREATE TABLE only when no table of
\* that name exists.
create_table_query(tbls, name, definition) ==
    IF name \in DOMAIN tbls
    THEN [tables |-> tbls, result |-> "exists"]
    ELSE [tables |-> tbls @@ (name :> definition), result |-> "created"]

\* Lines 103-111, then 150-153: the statement ran and was committed.
CreateTableReady ==
    /\ pc = "create"
    /\ LET renamed == [photos_df EXCEPT !.columns = Rename(@)]
           r == create_table_query(tables, table_name, columns_with_types(renamed))
       IN /\ r.result # "error"
          /\ photos_df' = renamed
          /\ tables' = r.tables
          /\ ddlResult' = r.result
    /\ ddlExecs' = ddlExecs + 1
    /\ lastLevel' = "info"
    /\ pc' = "validate"
    /\ UNCHANGED <<env, exitCode, fatal, fault, data_to_insert, cnxn, cursor,
                   rowsBefore, i, successful_inserts, failed_inserts,
                   lastOutcome, reported, httpRequests, connectAttempts,
                   insertAttempts, commits, commitResult, rollbacks,
                   rows, pending>>

\* Lines 154-158: execute or commit raised (the server or the link failed,
\* or the statement itself did): rollback, close the cursor only, exit(1).
CreateTableError ==
    /\ pc = "create"
    /\ LET renamed == [photos_df EXCEPT !.columns = Rename(@)]
           r == create_table_query(tables, table_name, columns_with_types(renamed))
       IN /\ photos_df' = renamed
          /\ fault' = IF r.result = "error" THEN fault ELSE "ddl"
    /\ ddlExecs' = ddlExecs + 1
    /\ ddlResult' = "error"
    /\ lastLevel' = "error"
    /\ rollbacks' = rollbacks + 1
    /\ pending' = {}
    /\ cursor' = "closed"
    /\ Exit("create_table")
    /\ UNCHANGED <<env, data_to_insert, cnxn,
                   rowsBefore, i, successful_inserts, failed_inserts,
                   lastOutcome, reported, httpRequests, connectAttempts,
                   insertAttempts, commits, commitResult, tables, rows>>
\* missing_columns as it would be if only the key column were looked for.
missing_columns_id_only(dataframe) == {"id"} \ dataframe.columns

\* ------------------------------------------------ main, lines 228-255
\* Line 242.
missing_columns(dataframe) == required_columns \ dataframe.columns

\* Lines 243-247.
ValidateMissing ==
    /\ pc = "validate"
    /\ missing_columns(photos_df) # {}
    /\ lastLevel' = "error"
    /\ cursor' = "closed"
    /\ cnxn' = "closed"
    /\ Exit("missing_columns")
    /\ UNCHANGED <<env, fault, photos_df, data_to_insert,
                   rowsBefore, i, successful_inserts, failed_inserts,
                   lastOutcome, reported, httpRequests, connectAttempts,
                   ddlExecs, ddlResult, insertAttempts, commits, commitResult,
                   rollbacks, dbVars>>

\* Lines 249-255 and 164-177: the required columns are kept (the date
\* columns coerced, which no variable of this model looks at) and the loop
\* of insert_data starts.
ValidateOk ==
    /\ pc = "validate"
    /\ missing_columns(photos_df) = {}
    /\ data_to_insert' = [columns |-> required_columns, rows |-> photos_df.rows]
    /\ i' = 1
    /\ successful_inserts' = 0
    /\ failed_inserts' = 0
    /\ pc' = "insert"
    /\ UNCHANGED <<env, exitCode, fatal, lastLevel, fault, photos_df,
                   cnxn, cursor, rowsBefore,
                   lastOutcome, reported, httpRequests, connectAttempts,
                   ddlExecs, ddlResult, insertAttempts, commits, commitResult,
                   rollbacks, dbVars>>
\* insert_query as it would be if the key were checked against the open
\* transaction only.
insert_query_pending_only(tbls, name, committed, uncommitted, columns, data) ==
    IF name \notin DOMAIN tbls \/ ~(columns \subseteq DOMAIN tbls[name].schema)
    THEN "error"
    ELSE IF /\ "id" \in tbls[name].pk
            /\ \E r \in uncommitted : r.id = data.id
         THEN "duplicate"
         ELSE "inserted"

\* ------------------------------------------------ 4. insert the rows
\* Line 181 as the server runs it: the statement names the DataFrame's
\* columns, so it fails when the table lacks one; the primary key rejects
\* an id that a committed or a pending row already has.
insert_query(tbls, name, committed, uncommitted, columns, data) ==
    IF name \notin DOMAIN tbls \/ ~(columns \subseteq DOMAIN tbls[name].schema)
    THEN "error"
    ELSE IF /\ "id" \in tbls[name].pk
            /\ \E r \in committed \cup uncommitted : r.id = data.id
         THEN "duplicate"
         ELSE "inserted"

InLoop == pc = "insert" /\ i <= Len(data_to_insert.rows)

Outcome ==
    insert_query(tables, table_name, rows, pending, data_to_insert.columns,
                 data_to_insert.rows[i])

\* One iteration of the loop of lines 179-188.
NextTuple ==
    /\ i' = i + 1
    /\ insertAttempts' = insertAttempts + 1
    /\ UNCHANGED <<env, pc, exitCode, fatal, fault, photos_df, data_to_insert,
                   cnxn, cursor, rowsBefore, reported, httpRequests,
                   connectAttempts, ddlExecs, ddlResult, commits, commitResult,
                   rollbacks, tables, rows>>
\* InsertRow as it would be with a commit after every successful insert.
InsertRow_commits ==
    /\ InLoop
    /\ Outcome = "inserted"
    /\ rows' = rows \cup {data_to_insert.rows[i]}
    /\ commits' = commits + 1
    /\ successful_inserts' = successful_inserts + 1
    /\ lastOutcome' = "inserted"
    /\ i' = i + 1
    /\ insertAttempts' = insertAttempts + 1
    /\ UNCHANGED <<env, pc, exitCode, fatal, fault, photos_df, data_to_insert,
                   cnxn, cursor, rowsBefore, reported, httpRequests,
                   connectAttempts, ddlExecs, ddlResult, commitResult,
                   rollbacks, tables, pending, failed_inserts, lastLevel>>

\* Lines 181-182.
InsertRow ==
    /\ InLoop
    /\ Outcome = "inserted"
    /\ pending' = pending \cup {data_to_insert.rows[i]}
    /\ successful_inserts' = successful_inserts + 1
    /\ lastOutcome' = "inserted"
    /\ UNCHANGED <<failed_inserts, lastLevel>>
    /\ NextTuple
\* InsertDuplicate as it would be if the except branch counted a success.
InsertDuplicate_counts_success ==
    /\ InLoop
    /\ Outcome = "duplicate"
    /\ successful_inserts' = successful_inserts + 1
    /\ lastLevel' = "warning"
    /\ lastOutcome' = "duplicate"
    /\ UNCHANGED <<failed_inserts, pending>>
    /\ NextTuple

\* Lines 183-185.
InsertDuplicate ==
    /\ InLoop
    /\ Outcome = "duplicate"
    /\ failed_inserts' = failed_inserts + 1
    /\ lastLevel' = "warning"
    /\ lastOutcome' = "duplicate"
    /\ UNCHANGED <<successful_inserts, pending>>
    /\ NextTuple

\* Lines 186-188.
InsertError ==
    /\ InLoop
    /\ Outcome = "error"
    /\ failed_inserts' = failed_inserts + 1
    /\ lastLevel' = "error"
    /\ lastOutcome' = "error"
    /\ UNCHANGED <<successful_inserts, pending>>
    /\ NextTuple

LoopDone == pc = "insert" /\ i > Len(data_to_insert.rows)

\* Lines 190-194: the one commit, and the counts it logs.
CommitOk ==
    /\ LoopDone
    /\ commits' = commits + 1
    /\ commitResult' = "ok"
    /\ rows' = rows \cup pending
    /\ pending' = {}
    /\ reported' = <<successful_inserts, failed_inserts>>
    /\ lastLevel' = "info"
    /\ pc' = "close"
    /\ UNCHANGED <<env, exitCode, fatal, fault, photos_df, data_to_insert,
                   cnxn, cursor, rowsBefore, i, successful_inserts,
                   failed_inserts, lastOutcome, httpRequests, connectAttempts,
                   ddlExecs, ddlResult, insertAttempts, rollbacks, tables>>

\* Lines 195-197: the commit raised: log, roll back, return.
CommitError ==
    /\ LoopDone
    /\ fault' = "commit"
    /\ commits' = commits + 1
    /\ commitResult' = "failed"
    /\ rollbacks' = rollbacks + 1
    /\ pending' = {}
    /\ lastLevel' = "error"
    /\ pc' = "close"
    /\ UNCHANGED <<env, exitCode, fatal, photos_df, data_to_insert,
                   cnxn, cursor, rowsBefore, i, successful_inserts,
                   failed_inserts, lastOutcome, reported, httpRequests,
                   connectAttempts, ddlExecs, ddlResult, insertAttempts,
                   tables, rows>>

\* Lines 260-263, and the process ends with status 0.
Close ==
    /\ pc = "close"
    /\ cursor' = "closed"
    /\ cnxn' = "closed"
    /\ lastLevel' = "info"
    /\ exitCode' = Status(0)
    /\ pc' = "exited"
    /\ UNCHANGED <<env, fatal, fault, photos_df, data_to_insert,
                   rowsBefore, i, successful_inserts, failed_inserts,
                   lastOutcome, reported, httpRequests, connectAttempts,
                   ddlExecs, ddlResult, insertAttempts, commits, commitResult,
                   rollbacks, dbVars>>

\* ------------------------------------------------ the next run
\* Lines 269-270 again: a new process against the same database.  What the
\* last process left uncommitted is gone with its connection.
StartRun ==
    /\ pc = "exited"
    /\ env' \in Environments
    /\ pc' = "fetch"
    /\ exitCode' = NoStatus
    /\ fatal' = "none"
    /\ lastLevel' = "none"
    /\ fault' = "none"
    /\ photos_df' = NoFrame
    /\ data_to_insert' = NoFrame
    /\ cnxn' = "none"
    /\ cursor' = "none"
    /\ rowsBefore' = rows
    /\ i' = 1
    /\ successful_inserts' = 0
    /\ failed_inserts' = 0
    /\ lastOutcome' = "none"
    /\ reported' = << >>
    /\ httpRequests' = 0
    /\ connectAttempts' = 0
    /\ ddlExecs' = 0
    /\ ddlResult' = "none"
    /\ insertAttempts' = 0
    /\ commits' = 0
    /\ commitResult' = "none"
    /\ rollbacks' = 0
    /\ pending' = {}
    /\ UNCHANGED <<tables, rows>>

Next ==
    \/ FetchNoKey
    \/ FetchRequestError
    \/ FetchEmpty
    \/ FetchPhotos
    \/ MainRename
    \/ ConnectMissingVars
    \/ ConnectError
    \/ ConnectOk
    \/ CreateTableReady
    \/ CreateTableError
    \/ ValidateMissing
    \/ ValidateOk
    \/ InsertRow
    \/ InsertDuplicate
    \/ InsertError
    \/ CommitOk
    \/ CommitError
    \/ Close
    \/ StartRun

Spec == Init /\ [][Next]_vars

\* ======================================================== the claims
Exited == pc = "exited"
Fetched == httpRequests = 1
NoDbActivity ==
    /\ connectAttempts = 0
    /\ cnxn = "none"
    /\ cursor = "none"
    /\ ddlExecs = 0
    /\ insertAttempts = 0
    /\ commits = 0
ConnectionAcquired == cnxn \in {"open", "closed"}
Provisioned == ddlResult \in {"created", "exists"}
BatchIds == {data_to_insert.rows[k].id : k \in 1..Len(data_to_insert.rows)}
IdsOf(table) == {r.id : r \in table}
LoaderReturned == pc = "close" \/ (Exited /\ commits > 0)

\* C1: a run whose fetch yields zero records (an empty photo list, or a
\* request error turned into one) has ended with status 1 and has made no
\* connection attempt.
C1_EmptyFetchFailsFast ==
    (Fetched /\ photos_df.rows = << >>) =>
        /\ Exited
        /\ exitCode = Status(1)
        /\ connectAttempts = 0
        /\ cnxn = "none"

C1_Witness ==
    /\ Fetched
    /\ photos_df.rows = << >>
    /\ fault = "network"
    /\ exitCode = Status(1)

\* C2: a run that fetched a non-empty record set lacking a required column
\* after flattening never issues an INSERT and never ends with status 0; it
\* ends with status 1, and once the connection is acquired and the
\* provisioning statement has run without error it ends at the column check,
\* which comes only after provisioning.
AbsentAfterFlattening ==
    /\ Fetched
    /\ photos_df.rows # << >>
    /\ required_columns \ Rename(photos_df.columns) # {}

C2_MissingColumnFailsAfterProvisioning ==
    AbsentAfterFlattening =>
        /\ insertAttempts = 0
        /\ commits = 0
        /\ pc \notin {"insert", "close"}
        /\ exitCode # Status(0)
        /\ Exited => exitCode = Status(1)
        /\ (Exited /\ ConnectionAcquired /\ ddlResult # "error") =>
               fatal = "missing_columns"
        /\ fatal = "missing_columns" => (ddlExecs = 1 /\ Provisioned)

C2_Witness ==
    /\ AbsentAfterFlattening
    /\ fatal = "missing_columns"
    /\ ddlResult = "created"
    /\ exitCode = Status(1)

\* C3: whenever the process has exited after acquiring the connection, the
\* cursor and the connection are both closed.
C3_ClosedOnEveryExit ==
    (Exited /\ connectAttempts = 1 /\ cnxn # "failed") =>
        (cursor = "closed" /\ cnxn = "closed")

\* C4 as claimed: with the API key or any connection variable missing, the
\* run sends no HTTP request, does nothing on the database and exits 1.
C4_ConfigCheckedBeforeAnyIO ==
    env # EnvVars =>
        /\ httpRequests = 0
        /\ NoDbActivity
        /\ Exited => exitCode = Status(1)

\* C4 as amended: without the API key the run sends no HTTP request and does
\* nothing on the database; with any of the six variables missing it does
\* nothing on the database and never ends with status 0 (a missing
\* connection variable is found only after the fetch).
C4_ConfigCheckedBeforeItsOwnIO ==
    /\ ApiKeyVar \notin env => (httpRequests = 0 /\ NoDbActivity)
    /\ env # EnvVars =>
        /\ NoDbActivity
        /\ exitCode # Status(0)
        /\ Exited => exitCode = Status(1)

C4_Witness ==
    /\ missing_vars(env) # {}
    /\ fatal = "db_config"
    /\ httpRequests = 1
    /\ NoDbActivity

\* C5: in the insert loop a record whose id the table already holds takes
\* the duplicate branch: the skipped counter goes up by one, the inserted
\* counter and the table stay as they are, and the loop goes on to the next
\* record; every record of the batch is attempted; and a batch whose ids
\* were all in the table when the run started ends with 0 inserted and all
\* skipped, the table as it was, and these counts in the log when the
\* commit succeeds.
DuplicateIsSkipped ==
    (InLoop /\ data_to_insert.rows[i].id \in IdsOf(rows \cup pending)) =>
        /\ failed_inserts' = failed_inserts + 1
        /\ successful_inserts' = successful_inserts
        /\ lastOutcome' = "duplicate"
        /\ lastLevel' = "warning"
        /\ rows' = rows
        /\ pending' = pending
        /\ i' = i + 1
        /\ pc' = "insert"
        /\ exitCode' = NoStatus

ReloadCounts ==
    LoaderReturned =>
        /\ insertAttempts = Len(data_to_insert.rows)
        /\ successful_inserts + failed_inserts = Len(data_to_insert.rows)
        /\ BatchIds \subseteq IdsOf(rowsBefore) =>
              /\ successful_inserts = 0
              /\ failed_inserts = Len(data_to_insert.rows)
              /\ rows = rowsBefore
              /\ commitResult = "ok" =>
                     reported = <<0, Len(data_to_insert.rows)>>

C5_DuplicatesAreSkipped == [][DuplicateIsSkipped]_vars /\ []ReloadCounts

C5_Witness ==
    /\ Exited
    /\ Len(data_to_insert.rows) = 3
    /\ BatchIds = {1, 2, 3}
    /\ IdsOf(rowsBefore) = {1, 2, 3}
    /\ reported = <<0, 3>>
    /\ rows = rowsBefore

\* C6: the table never holds two rows with the same id, and no step removes
\* or changes a committed row.
UniqueIds ==
    \A r1, r2 \in rows \cup pending : r1.id = r2.id => r1 = r2

C6_UniqueAndAppendOnly == []UniqueIds /\ [][rows \subseteq rows']_vars

C6_Witness ==
    /\ lastOutcome = "duplicate"
    /\ commitResult = "ok"
    /\ \E k \in 1..Len(data_to_insert.rows), r \in rows :
          /\ r.id = data_to_insert.rows[k].id
          /\ r.sol # data_to_insert.rows[k].sol

\* C7: the database holds at most the one target table; once it exists no
\* step changes its definition, and provisioning against it succeeds
\* without DDL unless the server or the link fails.
ProvisionIsIdempotent ==
    table_name \in DOMAIN tables =>
        /\ tables' = tables
        /\ (pc = "create" /\ fault' # "ddl") =>
              (ddlResult' = "exists" /\ pc' = "validate")

C7_ProvisioningIdempotent ==
    [](DOMAIN tables \subseteq {table_name}) /\ [][ProvisionIsIdempotent]_vars

C7_Witness ==
    /\ ddlResult = "exists"
    /\ "sol" \in DOMAIN tables[table_name].schema
    /\ "sol" \in photos_df.columns
    /\ columns_with_types(photos_df).schema["sol"]
          # tables[table_name].schema["sol"]

\* C8: the target table's columns are exactly the eleven required columns,
\* id being the primary key.
C8_TableHasRequiredColumnsOnly ==
    table_name \in DOMAIN tables =>
        /\ DOMAIN tables[table_name].schema = required_columns
        /\ tables[table_name].pk = {"id"}

\* C9: status 0 only at the end of main with no fatal condition met; each
\* fatal condition ends the run with status 1, an error or warning being
\* the last line logged, and no later stage having run.
C9_FatalConditionsExitNonZero ==
    /\ exitCode = Status(0) =>
          /\ Exited /\ fatal = "none" /\ commits = 1
          /\ env = EnvVars /\ photos_df.rows # << >>
          /\ cnxn = "closed" /\ Provisioned
          /\ missing_columns(photos_df) = {}
    /\ (exitCode = NoStatus <=> ~Exited)
    /\ exitCode = Status(1) => (fatal # "none" /\ lastLevel \in {"error", "warning"})
    /\ (pc # "fetch" /\ ApiKeyVar \notin env) =>
          /\ exitCode = Status(1) /\ fatal = "no_api_key"
          /\ httpRequests = 0 /\ NoDbActivity
    /\ (Fetched /\ photos_df.rows = << >>) =>
          (exitCode = Status(1) /\ fatal = "empty_fetch" /\ NoDbActivity)
    /\ (pc \notin {"fetch", "rename", "connect"} /\ photos_df.rows # << >>
            /\ missing_vars(env) # {}) =>
          (exitCode = Status(1) /\ fatal = "db_config" /\ NoDbActivity)
    /\ cnxn = "failed" =>
          /\ exitCode = Status(1) /\ fatal = "db_connect"
          /\ ddlExecs = 0 /\ insertAttempts = 0 /\ commits = 0
    /\ ddlResult = "error" =>
          /\ exitCode = Status(1) /\ fatal = "create_table"
          /\ insertAttempts = 0 /\ commits = 0
    /\ (pc \notin {"fetch", "rename", "connect", "create", "validate"}
            /\ Provisioned /\ missing_columns(photos_df) # {}) =>
          /\ exitCode = Status(1) /\ fatal = "missing_columns"
          /\ insertAttempts = 0 /\ commits = 0

C9_Witness ==
    /\ cnxn = "failed"
    /\ exitCode = Status(1)
    /\ lastLevel = "error"

\* C10: insert_data commits once, after the last record and never inside
\* the loop; when that commit fails there is one rollback, no second commit
\* and no further insert, the table is as it was when the run started, and
\* the run closes the cursor and the connection and ends with status 0.
C10_SingleCommitAfterBatch ==
    /\ commits <= 1
    /\ pc = "insert" => commits = 0
    /\ LoaderReturned =>
          (commits = 1 /\ insertAttempts = Len(data_to_insert.rows))
    /\ commitResult = "failed" =>
          /\ rollbacks = 1
          /\ rows = rowsBefore
          /\ pending = {}
          /\ pc \in {"close", "exited"}
          /\ Exited =>
                (exitCode = Status(0) /\ cursor = "closed" /\ cnxn = "closed")

C10_Witness ==
    /\ commitResult = "failed"
    /\ successful_inserts > 0
    /\ exitCode = Status(0)
    /\ cnxn = "closed"

====
